---- MODULE Spec2Model ----
(***************************************************************************)
(* A model of the power-plant data pipeline: util/data_cleaner.py          *)
(* (DataCleaner) and services/data_handler.py (PowerPlantDataHandler).     *)
(*                                                                         *)
(* A pandas DataFrame is a record [cols, dtype, rows]: the ordered column  *)
(* names, the dtype of each column ("object" or "float64") and the ordered *)
(* rows, each a function from column name to cell.  A cell is a string (a  *)
(* sequence of one-character strings), a number or the missing value NaN.  *)
(* Numbers are fixed-point integers counting hundredths, so that "10%"     *)
(* becomes exactly 0.10.  A column name is the sequence of its words.      *)
(*                                                                         *)
(* The strings of the model are written over digits, ',', '%' and          *)
(* letters; numeric raw cells are whole numbers.                           *)
(***************************************************************************)
EXTENDS Integers, Sequences, FiniteSets, TLC

VARIABLES
    raw,                 \* the DataFrame handed to DataCleaner(data)
    data,                \* DataCleaner.data
    percentage_columns,  \* DataCleaner.percentage_columns
    pc,                  \* position of the cleaner in clean_data
    plant_data,          \* PowerPlantDataHandler.plant_data
    state_data,          \* PowerPlantDataHandler.state_data
    sort_order,          \* per numeric plant column, the row order this build's sort gives
    result               \* what the last handler call returned or raised

vars == <<raw, data, percentage_columns, pc, plant_data, state_data, sort_order, result>>

(***************************************************************************)
(* Bounds                                                                  *)
(***************************************************************************)
MaxRows == 2        \* data rows of a raw table given to the cleaner alone
MaxPlantRows == 2   \* data rows of the raw plant table
MaxStateRows == 2   \* data rows of the raw state table
MaxTopNumber == 3   \* largest top_number asked for

(***************************************************************************)
(* Cells                                                                   *)
(***************************************************************************)
Hundred == 100

NaN == [k |-> "nan", v |-> 0, s |-> <<>>]
Num(x) == [k |-> "num", v |-> x, s |-> <<>>]
Str(cs) == [k |-> "str", v |-> 0, s |-> cs]

\* A whole number n as a cell.
Whole(n) == Num(n * Hundred)

Unknown == Str(<<"U", "n", "k", "n", "o", "w", "n">>)

DigitVal == [c \in {"0", "1", "2", "3", "4", "5", "6", "7", "8", "9"} |->
               CASE c = "0" -> 0 [] c = "1" -> 1 [] c = "2" -> 2 [] c = "3" -> 3
                 [] c = "4" -> 4 [] c = "5" -> 5 [] c = "6" -> 6 [] c = "7" -> 7
                 [] c = "8" -> 8 [] c = "9" -> 9]

DigitChar == <<"0", "1", "2", "3", "4", "5", "6", "7", "8", "9">>

NanStr == <<"n", "a", "n">>

\* str(n) for a whole number n.
RECURSIVE DecStr(_)
DecStr(n) ==
    IF n < 0 THEN <<"-">> \o DecStr(0 - n)
    ELSE IF n < 10 THEN <<DigitChar[n + 1]>>
    ELSE DecStr(n \div 10) \o <<DigitChar[(n % 10) + 1]>>

\* Series.astype(str), one cell: str(x) of the cell's value.
AsStr(c) ==
    CASE c.k = "str" -> c.s
      [] c.k = "nan" -> NanStr
      [] c.k = "num" -> DecStr(c.v \div Hundred)

\* str.rstrip('%'): every trailing '%' goes.
RECURSIVE RStripPercent(_)
RStripPercent(cs) ==
    IF cs # <<>> /\ cs[Len(cs)] = "%"
    THEN RStripPercent(SubSeq(cs, 1, Len(cs) - 1))
    ELSE cs

\* Series.replace(',', '', regex=True), one string: every comma goes.
RECURSIVE RemoveCommas(_)
RemoveCommas(cs) ==
    IF cs = <<>> THEN <<>>
    ELSE IF Head(cs) = "," THEN RemoveCommas(Tail(cs))
    ELSE <<Head(cs)>> \o RemoveCommas(Tail(cs))

Unsigned(cs) == IF cs # <<>> /\ cs[1] = "-" THEN Tail(cs) ELSE cs

IsDigits(cs) == cs # <<>> /\ \A i \in 1..Len(cs) : cs[i] \in DOMAIN DigitVal

\* float(s) succeeds: an optionally signed run of digits, or "nan".
Parses(cs) == cs = NanStr \/ IsDigits(Unsigned(cs))

RECURSIVE DecVal(_)
DecVal(cs) ==
    IF cs = <<>> THEN 0
    ELSE DecVal(SubSeq(cs, 1, Len(cs) - 1)) * 10 + DigitVal[cs[Len(cs)]]

\* float(s), for a string that parses.
FloatOf(cs) ==
    IF cs = NanStr THEN NaN
    ELSE IF cs[1] = "-" THEN Whole(0 - DecVal(Tail(cs)))
    ELSE Whole(DecVal(cs))

(***************************************************************************)
(* DataFrames                                                              *)
(***************************************************************************)
Range(f) == {f[i] : i \in DOMAIN f}

\* The dtype pandas gives a column built from these cells.
InferDtype(cells) ==
    IF \E i \in DOMAIN cells : cells[i].k = "str" THEN "object" ELSE "float64"

Frame(cols, rows) ==
    [cols |-> cols,
     dtype |-> [c \in Range(cols) |-> InferDtype([i \in 1..Len(rows) |-> rows[i][c]])],
     rows |-> rows]

\* df with column col replaced by cells, of dtype dt.
SetColumn(df, col, cells, dt) ==
    [df EXCEPT !.dtype[col] = dt,
               !.rows = [i \in 1..Len(df.rows) |-> [df.rows[i] EXCEPT ![col] = cells[i]]]]

EmptyFrame == [cols |-> <<>>, dtype |-> <<>>, rows |-> <<>>]

(***************************************************************************)
(* DataCleaner                                                             *)
(***************************************************************************)
\* str.lower(), one word of a column name.
Lower(w) ==
    CASE w = "Percent" -> "percent"
      [] w = "Plant" -> "plant"
      [] w = "State" -> "state"
      [] OTHER -> w

\* 'percent' in col.lower()
IsPercentName(col) == \E i \in 1..Len(col) : Lower(col[i]) = "percent"

PercentageColumns(df) == SelectSeq(df.cols, IsPercentName)

\* RemoveMetadataRow that keeps the first row.
KeepMetadataRow(df) == df

\* iloc[1:] and reset_index(drop=True)
RemoveMetadataRow(df) == [df EXCEPT !.rows = Tail(df.rows)]

\* astype(str).str.rstrip('%') of one cell
PercentText(c) == RStripPercent(AsStr(c))

\* astype('float') raises ValueError on this column
PercentRaises(df, col) ==
    \E i \in 1..Len(df.rows) : ~Parses(PercentText(df.rows[i][col]))

\* PercentValue without the division by 100.
PercentValueUnscaled(c) ==
    LET f == FloatOf(PercentText(c))
    IN  IF f.k = "nan" THEN NaN ELSE Num(f.v)

\* astype('float') / 100 of one cell
PercentValue(c) ==
    LET f == FloatOf(PercentText(c))
    IN  IF f.k = "nan" THEN NaN ELSE Num(f.v \div Hundred)

\* one turn of the loop of _convert_percentages; the column holds floats from
\* here on, and astype(float) of the next step makes its dtype float64 in any
\* pandas version
ConvertPercentColumn(df, col) ==
    SetColumn(df, col, [i \in 1..Len(df.rows) |-> PercentValue(df.rows[i][col])], "float64")

\* fillna(value), one cell
FillNa(c, value) == IF c.k = "nan" THEN value ELSE c

FillColumn(df, col, value) ==
    SetColumn(df, col, [i \in 1..Len(df.rows) |-> FillNa(df.rows[i][col], value)],
              df.dtype[col])

\* The loop of _convert_percentages over pcols, then the fillna(0) over them.
\* [raised |-> TRUE] when astype('float') raises in some column; the columns
\* before it are already converted.
RECURSIVE ConvertLoop(_, _)
ConvertLoop(df, pcols) ==
    IF pcols = <<>> THEN [raised |-> FALSE, df |-> df]
    ELSE IF PercentRaises(df, Head(pcols)) THEN [raised |-> TRUE, df |-> df]
    ELSE ConvertLoop(ConvertPercentColumn(df, Head(pcols)), Tail(pcols))

RECURSIVE FillColumns(_, _, _)
FillColumns(df, cols, value) ==
    IF cols = <<>> THEN df
    ELSE FillColumns(FillColumn(df, Head(cols), value), Tail(cols), value)

ConvertPercentages(df, pcols) ==
    LET r == ConvertLoop(df, pcols)
    IN  IF r.raised THEN r ELSE [raised |-> FALSE, df |-> FillColumns(r.df, pcols, Num(0))]

\* col.replace(',', '', regex=True), one cell: strings only
ReplaceCommas(c) == IF c.k = "str" THEN Str(RemoveCommas(c.s)) ELSE c

\* astype(float) succeeds on one cell
FloatParses(c) == c.k # "str" \/ Parses(c.s)

\* astype(float), one cell that parses
ToFloat(c) == IF c.k = "str" THEN FloatOf(c.s) ELSE c

\* ConvertToNumerical cell by cell: the cells that parse are converted, the
\* others are left.
ConvertToNumericalByCell(df, col) ==
    SetColumn(df, col,
              [i \in 1..Len(df.rows) |->
                 IF FloatParses(ReplaceCommas(df.rows[i][col]))
                 THEN ToFloat(ReplaceCommas(df.rows[i][col]))
                 ELSE df.rows[i][col]],
              IF \A i \in 1..Len(df.rows) : FloatParses(ReplaceCommas(df.rows[i][col]))
              THEN "float64" ELSE df.dtype[col])

\* _convert_to_numerical: the converted column, or the column itself when
\* astype(float) raises on any cell.
ConvertToNumerical(df, col) ==
    IF \A i \in 1..Len(df.rows) : FloatParses(ReplaceCommas(df.rows[i][col]))
    THEN SetColumn(df, col,
                   [i \in 1..Len(df.rows) |-> ToFloat(ReplaceCommas(df.rows[i][col]))],
                   "float64")
    ELSE df

\* _convert_columns_to_numerical: DataFrame.apply, column by column
RECURSIVE ApplyConvert(_, _)
ApplyConvert(df, cols) ==
    IF cols = <<>> THEN df
    ELSE ApplyConvert(ConvertToNumerical(df, Head(cols)), Tail(cols))

ConvertColumnsToNumerical(df) == ApplyConvert(df, df.cols)

\* select_dtypes
IsFloatCol(df, col) == df.dtype[col] = "float64"
IsObjectCol(df, col) == df.dtype[col] = "object"

\* FillMissingValues without the fill of the object columns.
FillMissingValuesNumericOnly(df) ==
    FillColumns(df, SelectSeq(df.cols, LAMBDA c : df.dtype[c] = "float64"), Num(0))

\* _fill_missing_values
FillMissingValues(df) ==
    LET numerical_columns == SelectSeq(df.cols, LAMBDA c : IsFloatCol(df, c))
        filled == FillColumns(df, numerical_columns, Num(0))
        categorical_columns == SelectSeq(filled.cols, LAMBDA c : IsObjectCol(filled, c))
    IN  FillColumns(filled, categorical_columns, Unknown)

\* drop_duplicates: a row equal to an earlier one goes
RECURSIVE DropDuplicates(_)
DropDuplicates(rows) ==
    IF rows = <<>> THEN <<>>
    ELSE LET init == DropDuplicates(SubSeq(rows, 1, Len(rows) - 1))
             last == rows[Len(rows)]
         IN  IF \E i \in 1..(Len(rows) - 1) : rows[i] = last THEN init
             ELSE Append(init, last)

\* RemoveDuplicates that drops nothing.
RemoveDuplicatesKeepAll(df) == df

\* _remove_duplicates
RemoveDuplicates(df) == [df EXCEPT !.rows = DropDuplicates(df.rows)]

\* clean_data, start to end
CleanData(df) ==
    LET a == RemoveMetadataRow(df)
        b == ConvertPercentages(a, PercentageColumns(df))
    IN  IF b.raised THEN [raised |-> TRUE, df |-> b.df]
        ELSE [raised |-> FALSE,
              df |-> RemoveDuplicates(FillMissingValues(ConvertColumnsToNumerical(b.df)))]

(***************************************************************************)
(* PowerPlantDataHandler                                                   *)
(***************************************************************************)
PlantName == <<"Plant", "name">>
PlantAbbr == <<"Plant", "state", "abbreviation">>
StateAbbr == <<"State", "abbreviation">>

HasColumn(df, col) == col \in Range(df.cols)

\* pd.api.types.is_numeric_dtype
IsNumericDtype(df, col) == df.dtype[col] = "float64"

\* plant_metric.replace("Plant", "State")
StateMetric(plant_metric) ==
    [i \in 1..Len(plant_metric) |->
       IF plant_metric[i] = "Plant" THEN "State" ELSE plant_metric[i]]

NoError == [check |-> "none", column |-> <<>>]
NoResult == [op |-> "none", args |-> <<>>, status |-> "none", error |-> NoError, value |-> <<>>]

Returned(op, args, value) ==
    [op |-> op, args |-> args, status |-> "ok", error |-> NoError, value |-> value]

\* raise BadMetricError / DataNotFoundExceptionError: check is the message,
\* column the name the message quotes.
Raised(op, args, exception, check, column) ==
    [op |-> op, args |-> args, status |-> exception,
     error |-> [check |-> check, column |-> column], value |-> <<>>]

Min(a, b) == IF a <= b THEN a ELSE b

Perms(n) == {p \in [1..n -> 1..n] : \A i, j \in 1..n : i # j => p[i] # p[j]}

\* SortedOrders with ascending left at its default, True.
SortedOrdersAscending(df, col) ==
    {p \in Perms(Len(df.rows)) :
       \A i \in 1..(Len(df.rows) - 1) :
          df.rows[p[i]][col].v <= df.rows[p[i + 1]][col].v}

\* sort_values(by=col, ascending=False) with the default kind, quicksort,
\* which is not stable: the orders of the rows it may produce, each
\* non-increasing in col, rows of equal value in any order.
SortedOrders(df, col) ==
    {p \in Perms(Len(df.rows)) :
       \A i \in 1..(Len(df.rows) - 1) :
          df.rows[p[i]][col].v >= df.rows[p[i + 1]][col].v}

NumericColumns(df) == {c \in Range(df.cols) : IsNumericDtype(df, c)}

\* AfterSortValues with inplace=True: the rows of self.plant_data are sorted.
SortValuesInPlace(df, order) ==
    [df EXCEPT !.rows = [i \in 1..Len(df.rows) |-> df.rows[order[i]]]]

\* The frame self.plant_data after sort_values(...): inplace is False, the
\* sorted rows go to a new frame.
AfterSortValues(df, order) == df

TopPowerPlant(row, metric) ==
    [name |-> row[PlantName], state |-> row[PlantAbbr], metric |-> metric,
     metric_value |-> row[metric]]

\* get_top_n_plants; order is the row order sort_values gives for metric
TopNPlants(df, order, top_number, metric) ==
    IF ~HasColumn(df, metric)
    THEN Raised("get_top_n_plants", <<top_number, metric>>, "BadMetric",
                "metric does not exist", metric)
    ELSE IF IsNumericDtype(df, metric)
    THEN Returned("get_top_n_plants", <<top_number, metric>>,
                  [i \in 1..Min(top_number, Len(df.rows)) |->
                     TopPowerPlant(df.rows[order[metric][i]], metric)])
    ELSE Raised("get_top_n_plants", <<top_number, metric>>, "BadMetric",
                "metric is not numerical", metric)

\* SummaryCheck with each metric checked for existence and dtype in turn.
SummaryCheckPlantFirst(plants, states, plant_metric) ==
    LET state_metric == StateMetric(plant_metric)
    IN  IF ~HasColumn(plants, plant_metric)
        THEN [check |-> "plant metric does not exist", column |-> plant_metric]
        ELSE IF ~IsNumericDtype(plants, plant_metric)
        THEN [check |-> "plant metric is not numerical", column |-> plant_metric]
        ELSE IF ~HasColumn(states, state_metric)
        THEN [check |-> "state metric does not exist", column |-> state_metric]
        ELSE IF ~IsNumericDtype(states, state_metric)
        THEN [check |-> "no state level numerical data", column |-> plant_metric]
        ELSE NoError

\* The checks of get_plant_metric_summary_by_state, in the order of the code:
\* the first that fails, or "none".
SummaryCheck(plants, states, plant_metric) ==
    LET state_metric == StateMetric(plant_metric)
    IN  IF ~HasColumn(plants, plant_metric)
        THEN [check |-> "plant metric does not exist", column |-> plant_metric]
        ELSE IF ~HasColumn(states, state_metric)
        THEN [check |-> "state metric does not exist", column |-> state_metric]
        ELSE IF ~IsNumericDtype(plants, plant_metric)
        THEN [check |-> "plant metric is not numerical", column |-> plant_metric]
        ELSE IF ~IsNumericDtype(states, state_metric)
        THEN [check |-> "no state level numerical data", column |-> plant_metric]
        ELSE NoError

\* DataFrame.merge(how='left'): each plant row with the state metric of each
\* state row of its abbreviation, in the order of the plant rows, then of the
\* state rows; NaN when no state row matches.
RECURSIVE MergeLeft(_, _, _)
MergeLeft(plantRows, stateRows, state_metric) ==
    IF plantRows = <<>> THEN <<>>
    ELSE LET r == Head(plantRows)
             matches == SelectSeq(stateRows, LAMBDA st : st[StateAbbr] = r[PlantAbbr])
             joined == IF matches = <<>>
                       THEN <<[plant |-> r, state_value |-> NaN]>>
                       ELSE [i \in 1..Len(matches) |->
                               [plant |-> r, state_value |-> matches[i][state_metric]]]
         IN  joined \o MergeLeft(Tail(plantRows), stateRows, state_metric)

\* Exact fractions n/d, d > 0, for the percentages; the float results are
\* "inf", "-inf" and "nan".
Abs(x) == IF x < 0 THEN 0 - x ELSE x

RECURSIVE GCD(_, _)
GCD(a, b) == IF b = 0 THEN a ELSE GCD(b, a % b)

Rat(n, d) ==
    LET g == GCD(Abs(n), Abs(d))
        sg == IF d < 0 THEN 0 - 1 ELSE 1
    IN  [k |-> "num", n |-> (sg * n) \div g, d |-> (sg * d) \div g]

Float(k) == [k |-> k, n |-> 0, d |-> 1]

\* Percentage without the factor 100.
PercentageAsFraction(p, st) ==
    IF p.k = "nan" \/ st.k = "nan" THEN Float("nan")
    ELSE IF st.v = 0
    THEN IF p.v > 0 THEN Float("inf") ELSE IF p.v < 0 THEN Float("-inf") ELSE Float("nan")
    ELSE Rat(p.v, st.v)

\* (plant value / state value) * 100, as floats divide
Percentage(p, st) ==
    IF p.k = "nan" \/ st.k = "nan" THEN Float("nan")
    ELSE IF st.v = 0
    THEN IF p.v > 0 THEN Float("inf") ELSE IF p.v < 0 THEN Float("-inf") ELSE Float("nan")
    ELSE Rat(p.v * Hundred, st.v)

RECURSIVE SumCells(_)
SumCells(cells) ==
    IF cells = <<>> THEN 0 ELSE Head(cells).v + SumCells(Tail(cells))

RECURSIVE SumFinite(_)
SumFinite(ps) ==
    IF ps = <<>> THEN Rat(0, 1)
    ELSE LET rest == SumFinite(Tail(ps))
             h == Head(ps)
         IN  IF h.k = "num" THEN Rat(h.n * rest.d + rest.n * h.d, h.d * rest.d) ELSE rest

\* GroupSum with skipna=False: one NaN makes the sum NaN.
GroupSumKeepNa(ps) ==
    LET pos == \E i \in 1..Len(ps) : ps[i].k = "inf"
        neg == \E i \in 1..Len(ps) : ps[i].k = "-inf"
    IN  IF \E i \in 1..Len(ps) : ps[i].k = "nan" THEN Float("nan")
        ELSE IF pos /\ neg THEN Float("nan")
        ELSE IF pos THEN Float("inf")
        ELSE IF neg THEN Float("-inf")
        ELSE SumFinite(ps)

\* groupby(...).agg('sum') of a float column: NaN is skipped
GroupSum(ps) ==
    LET pos == \E i \in 1..Len(ps) : ps[i].k = "inf"
        neg == \E i \in 1..Len(ps) : ps[i].k = "-inf"
    IN  IF pos /\ neg THEN Float("nan")
        ELSE IF pos THEN Float("inf")
        ELSE IF neg THEN Float("-inf")
        ELSE SumFinite(ps)

\* The characters of the model in code point order.
CodePoints ==
    <<"%", ",", "-", "0", "1", "2", "3", "4", "5", "6", "7", "8", "9",
      "A", "C", "N", "U", "Y", "Z", "a", "k", "m", "n", "o", "w", "x">>

CodePoint(ch) == CHOOSE i \in 1..Len(CodePoints) : CodePoints[i] = ch

\* a < b for strings
RECURSIVE StrLess(_, _)
StrLess(a, b) ==
    IF b = <<>> THEN FALSE
    ELSE IF a = <<>> THEN TRUE
    ELSE IF Head(a) = Head(b) THEN StrLess(Tail(a), Tail(b))
    ELSE CodePoint(Head(a)) < CodePoint(Head(b))

\* The group keys of groupby, sorted
RECURSIVE SortedKeys(_)
SortedKeys(keys) ==
    IF keys = {} THEN <<>>
    ELSE LET least == CHOOSE x \in keys : \A y \in keys \ {x} : StrLess(x.s, y.s)
         IN  <<least>> \o SortedKeys(keys \ {least})

\* merge, percentage, groupby and agg of get_plant_metric_summary_by_state
StateSummary(plants, states, plant_metric) ==
    LET merged_data == MergeLeft(plants.rows, states.rows, StateMetric(plant_metric))
        keys == SortedKeys({merged_data[i].plant[PlantAbbr] : i \in 1..Len(merged_data)})
        Group(key) == SelectSeq(merged_data, LAMBDA m : m.plant[PlantAbbr] = key)
        Item(key) ==
            LET g == Group(key)
            IN  [plant_state_abbreviation |-> key,
                 metric |-> plant_metric,
                 absolute_value |->
                    Num(SumCells([i \in 1..Len(g) |-> g[i].plant[plant_metric]])),
                 percentage |->
                    GroupSum([i \in 1..Len(g) |->
                                Percentage(g[i].plant[plant_metric], g[i].state_value)])]
    IN  [i \in 1..Len(keys) |-> Item(keys[i])]

\* get_plant_metric_summary_by_state
PlantMetricSummaryByState(plants, states, plant_metric) ==
    LET failed == SummaryCheck(plants, states, plant_metric)
    IN  IF failed # NoError
        THEN Raised("get_plant_metric_summary_by_state", <<plant_metric>>, "BadMetric",
                    failed.check, failed.column)
        ELSE Returned("get_plant_metric_summary_by_state", <<plant_metric>>,
                      StateSummary(plants, states, plant_metric))

\* DataByState without the membership check: an empty list for no match.
DataByStateUnchecked(df, state) ==
    Returned("get_data_by_state", <<state>>,
             SelectSeq(df.rows, LAMBDA r : r[PlantAbbr] = Str(state)))

\* get_data_by_state; state is the text of the abbreviation asked for
DataByState(df, state) ==
    IF ~\E i \in 1..Len(df.rows) : df.rows[i][PlantAbbr] = Str(state)
    THEN Raised("get_data_by_state", <<state>>, "DataNotFound", "no data for state", state)
    ELSE Returned("get_data_by_state", <<state>>,
                  SelectSeq(df.rows, LAMBDA r : r[PlantAbbr] = Str(state)))

(***************************************************************************)
(* The cleaner on its own: a raw table, then the steps of clean_data in    *)
(* their order.                                                            *)
(***************************************************************************)
ColGen == <<"gen">>
ColCap == <<"cap">>
ColPct == <<"coal", "Percent">>
CleanerCols == <<ColGen, ColCap, ColPct>>

Meta == Str(<<"m">>)
GenCells == {Str(<<"1", ",", "0", "0", "0">>), Whole(5), Str(<<"x">>), NaN}
CapCells == {Str(<<"7">>), Str(<<"x">>)}
PctCells == {Str(<<"1", "0", "%">>), Str(<<"1", "5", "0", "%">>), Str(<<"x", "%">>),
             NaN, Whole(50)}

CellsOf(col) ==
    CASE col = ColGen -> GenCells
      [] col = ColCap -> CapCells
      [] col = ColPct -> PctCells

RawRows == {r \in [Range(CleanerCols) -> GenCells \cup CapCells \cup PctCells] :
              \A c \in Range(CleanerCols) : r[c] \in CellsOf(c)}

MetadataRow == [c \in Range(CleanerCols) |-> Meta]

\* The raw tables: the metadata row, then 1..MaxRows data rows.
RawTables ==
    {Frame(CleanerCols, <<MetadataRow>> \o rows) :
       rows \in UNION {[1..n -> RawRows] : n \in 1..MaxRows}}

NoHandler ==
    /\ plant_data = EmptyFrame
    /\ state_data = EmptyFrame
    /\ sort_order = <<>>
    /\ result = NoResult

\* DataCleaner.__init__
InitClean ==
    /\ raw \in RawTables
    /\ data = raw
    /\ percentage_columns = PercentageColumns(raw)
    /\ pc = "init"
    /\ NoHandler

handlerVars == <<plant_data, state_data, sort_order, result>>

remove_metadata_row ==
    /\ pc = "init"
    /\ data' = RemoveMetadataRow(data)
    /\ pc' = "remove_metadata_row"
    /\ UNCHANGED <<raw, percentage_columns, handlerVars>>

convert_percentages ==
    /\ pc = "remove_metadata_row"
    /\ LET r == ConvertPercentages(data, percentage_columns)
       IN  /\ data' = r.df
           /\ pc' = IF r.raised THEN "raised" ELSE "convert_percentages"
    /\ UNCHANGED <<raw, percentage_columns, handlerVars>>

convert_columns_to_numerical ==
    /\ pc = "convert_percentages"
    /\ data' = ConvertColumnsToNumerical(data)
    /\ pc' = "convert_columns_to_numerical"
    /\ UNCHANGED <<raw, percentage_columns, handlerVars>>

fill_missing_values ==
    /\ pc = "convert_columns_to_numerical"
    /\ data' = FillMissingValues(data)
    /\ pc' = "fill_missing_values"
    /\ UNCHANGED <<raw, percentage_columns, handlerVars>>

\* the last step of clean_data, which then returns self.data
remove_duplicates ==
    /\ pc = "fill_missing_values"
    /\ data' = RemoveDuplicates(data)
    /\ pc' = "returned"
    /\ UNCHANGED <<raw, percentage_columns, handlerVars>>

NextClean ==
    \/ remove_metadata_row
    \/ convert_percentages
    \/ convert_columns_to_numerical
    \/ fill_missing_values
    \/ remove_duplicates

SpecClean == InitClean /\ [][NextClean]_vars

(***************************************************************************)
(* Claims about the cleaner, checked under SpecClean                       *)
(***************************************************************************)
\* The raw cell of data row i (the metadata row is row 1 of raw).
RawCell(i, col) == raw.rows[i + 1][col]

\* The steps after which row i of data is still data row i of raw.
Aligned ==
    pc \in {"remove_metadata_row", "convert_percentages",
            "convert_columns_to_numerical", "fill_missing_values"}

PercentCols == {c \in Range(raw.cols) : c = ColPct}

\* The raw cells of a percent column that are no number once a trailing '%'
\* is stripped.
Malformed(c) == c = Str(<<"x", "%">>)

\* C1: clean_data never raises because of malformed cell content: a cell of
\* a "percent" column that is no number after stripping '%', or is missing,
\* is 0.0 in the table clean_data goes on to return.
C1_NeverRaises ==
    /\ pc # "raised"
    /\ pc \in {"convert_percentages", "convert_columns_to_numerical",
               "fill_missing_values"} =>
         \A i \in 1..Len(data.rows) : \A c \in PercentCols :
            (Malformed(RawCell(i, c)) \/ RawCell(i, c) = NaN) => data.rows[i][c] = Num(0)

\* C8: the table returned by clean_data has no missing cell: a cell that was
\* missing is 0.0 in a numeric column and "Unknown" in an object column, and
\* a column whose data cells are all missing comes out as numeric 0.0.
C8_NoMissingCell ==
    /\ pc = "fill_missing_values" =>
         \A i \in 1..Len(data.rows) : \A c \in Range(data.cols) :
            RawCell(i, c) = NaN =>
               /\ data.dtype[c] = "float64" => data.rows[i][c] = Num(0)
               /\ data.dtype[c] = "object" => data.rows[i][c] = Unknown
    /\ pc = "returned" =>
         /\ \A i \in 1..Len(data.rows) : \A c \in Range(data.cols) :
               data.rows[i][c] # NaN
         /\ \A c \in Range(data.cols) :
               (\A j \in 2..Len(raw.rows) : raw.rows[j][c] = NaN) =>
                  /\ data.dtype[c] = "float64"
                  /\ \A i \in 1..Len(data.rows) : data.rows[i][c] = Num(0)

\* C8 witness: a returned table in which a missing cell of an object column
\* became "Unknown", and a column that was all missing became 0.0.
C8_Witness ==
    /\ pc = "returned"
    /\ \E j \in 2..Len(raw.rows) : raw.rows[j][ColGen] = NaN
    /\ data.dtype[ColGen] = "object"
    /\ \E i \in 1..Len(data.rows) : data.rows[i][ColGen] = Unknown
    /\ \A j \in 2..Len(raw.rows) : raw.rows[j][ColPct] = NaN
    /\ \A i \in 1..Len(data.rows) : data.rows[i][ColPct] = Num(0)

\* What a raw percent cell means, as a number of hundredths: "10%" is 0.10.
C9_Meaning(c) ==
    CASE c = Str(<<"1", "0", "%">>) -> Num(10)
      [] c = Str(<<"1", "5", "0", "%">>) -> Num(150)
      [] c = Whole(50) -> Num(50)
      [] c = NaN -> Num(0)
      [] OTHER -> Str(<<"?">>)

\* C9 as first stated: in every table returned by clean_data, every cell of
\* a "percent" column is a number in the range [0, 1].
C9_InUnitRange ==
    pc = "returned" =>
       \A i \in 1..Len(data.rows) : \A c \in PercentCols :
          /\ data.rows[i][c].k = "num"
          /\ 0 <= data.rows[i][c].v
          /\ data.rows[i][c].v <= Hundred

\* C9, amended: in every table returned by clean_data, every cell of a
\* "percent" column is a number, the raw cell's percentage divided by 100
\* (0.0 for a missing cell); it is in [0, 1] when the raw percentage is in
\* [0, 100] and above 1 when the raw percentage is above 100.
C9_Rescaled ==
    /\ pc \in {"convert_percentages", "convert_columns_to_numerical",
               "fill_missing_values"} =>
         \A i \in 1..Len(data.rows) : \A c \in PercentCols :
            data.rows[i][c] = C9_Meaning(RawCell(i, c))
    /\ pc = "returned" =>
         \A i \in 1..Len(data.rows) : \A c \in PercentCols :
            /\ data.dtype[c] = "float64"
            /\ \E j \in 2..Len(raw.rows) : data.rows[i][c] = C9_Meaning(raw.rows[j][c])

\* C9 witness: a returned table holding 0.10 for "10%" and 1.5 for "150%".
C9_Witness ==
    /\ pc = "returned"
    /\ \E i \in 1..Len(data.rows) : data.rows[i][ColPct] = Num(10)
    /\ \E i \in 1..Len(data.rows) : data.rows[i][ColPct] = Num(150)

\* The cells that are a number once commas are removed, and that number.
C10_LooksNumeric(c) ==
    c.k # "str" \/ c \in {Str(<<"1", ",", "0", "0", "0">>), Str(<<"7">>)}

C10_Number(c) ==
    CASE c = Str(<<"1", ",", "0", "0", "0">>) -> Whole(1000)
      [] c = Str(<<"7">>) -> Whole(7)
      [] OTHER -> c

\* C10: numeric conversion is all-or-nothing per column: when every cell of
\* a column parses as a number after removing commas, every cell becomes
\* that float; when one cell does not, every cell of the column is left as
\* it was, whatever the other columns do.
C10_AllOrNothing ==
    [][convert_columns_to_numerical =>
         \A c \in Range(data.cols) :
            IF \A i \in 1..Len(data.rows) : C10_LooksNumeric(data.rows[i][c])
            THEN /\ data'.dtype[c] = "float64"
                 /\ \A i \in 1..Len(data.rows) :
                       data'.rows[i][c] = C10_Number(data.rows[i][c])
            ELSE /\ data'.dtype[c] = data.dtype[c]
                 /\ \A i \in 1..Len(data.rows) : data'.rows[i][c] = data.rows[i][c]]_vars

\* C10 witness: after the conversion, a column with "1,000" and "x" still
\* holds the string "1,000", next to a column of "7" that became 7.0.
C10_Witness ==
    /\ pc = "convert_columns_to_numerical"
    /\ \E i \in 1..Len(data.rows) : data.rows[i][ColGen] = Str(<<"x">>)
    /\ \E i \in 1..Len(data.rows) : data.rows[i][ColGen] = Str(<<"1", ",", "0", "0", "0">>)
    /\ \A i \in 1..Len(data.rows) : data.rows[i][ColCap] = Whole(7)

(***************************************************************************)
(* The handler: constructed from a raw plant table and a raw state table,  *)
(* then queried.                                                           *)
(***************************************************************************)
PlantGen == <<"Plant", "gen">>
StateGen == <<"State", "gen">>
NoSuchColumn == <<"No", "Such", "Column">>

PlantCols == <<PlantName, PlantAbbr, PlantGen>>
StateCols == <<StateAbbr, StateGen>>

CA == <<"C", "A">>
NY == <<"N", "Y">>
ZZ == <<"Z", "Z">>

PlantGenCells == {Str(<<"1", ",", "0", "0", "0">>), Whole(5), Str(<<"x">>)}
StateGenCells == {Str(<<"1", "0", ",", "0", "0", "0">>), Whole(0), Str(<<"x">>)}

PlantRawRows ==
    {[c \in Range(PlantCols) |->
        CASE c = PlantName -> Str(<<"A">>) [] c = PlantAbbr -> Str(a) [] c = PlantGen -> g] :
       a \in {CA, NY}, g \in PlantGenCells}

StateRawRows ==
    {[c \in Range(StateCols) |-> CASE c = StateAbbr -> Str(a) [] c = StateGen -> g] :
       a \in {CA, NY}, g \in StateGenCells}

RawPlantTables ==
    {Frame(PlantCols, <<[c \in Range(PlantCols) |-> Meta]>> \o rows) :
       rows \in UNION {[1..n -> PlantRawRows] : n \in 1..MaxPlantRows}}

RawStateTables ==
    {Frame(StateCols, <<[c \in Range(StateCols) |-> Meta]>> \o rows) :
       rows \in UNION {[1..n -> StateRawRows] : n \in 1..MaxStateRows}}

\* The metrics and states the queries are asked with.
Metrics == {PlantGen, PlantName, NoSuchColumn}
States == {CA, NY, ZZ}

NoCleaner ==
    /\ raw = EmptyFrame
    /\ data = EmptyFrame
    /\ percentage_columns = <<>>
    /\ pc = "handler"

\* PowerPlantDataHandler.__init__: both tables cleaned.
Init ==
    /\ NoCleaner
    /\ plant_data \in {CleanData(t).df : t \in RawPlantTables}
    /\ state_data \in {CleanData(t).df : t \in RawStateTables}
    /\ sort_order \in {f \in [NumericColumns(plant_data) -> Perms(Len(plant_data.rows))] :
                         \A c \in NumericColumns(plant_data) :
                            f[c] \in SortedOrders(plant_data, c)}
    /\ result = NoResult

cleanerVars == <<raw, data, percentage_columns, pc>>

get_top_n_plants ==
    /\ pc = "handler"
    /\ \E top_number \in 1..MaxTopNumber, metric \in Metrics :
          /\ result' = TopNPlants(plant_data, sort_order, top_number, metric)
          /\ plant_data' = IF HasColumn(plant_data, metric) /\ IsNumericDtype(plant_data, metric)
                           THEN AfterSortValues(plant_data, sort_order[metric])
                           ELSE plant_data
    /\ UNCHANGED <<state_data, sort_order, cleanerVars>>

get_plant_metric_summary_by_state ==
    /\ pc = "handler"
    /\ \E plant_metric \in Metrics :
          result' = PlantMetricSummaryByState(plant_data, state_data, plant_metric)
    /\ UNCHANGED <<plant_data, state_data, sort_order, cleanerVars>>

get_data_by_state ==
    /\ pc = "handler"
    /\ \E state \in States : result' = DataByState(plant_data, state)
    /\ UNCHANGED <<plant_data, state_data, sort_order, cleanerVars>>

Next ==
    \/ get_top_n_plants
    \/ get_plant_metric_summary_by_state
    \/ get_data_by_state

Spec == Init /\ [][Next]_vars

(***************************************************************************)
(* Claims about the handler, checked under Spec                            *)
(***************************************************************************)
\* col is a column of df whose every cell is a number.
NumericColumn(df, col) ==
    /\ col \in Range(df.cols)
    /\ \A i \in 1..Len(df.rows) : df.rows[i][col].k = "num"

Injective(f) == \A i, j \in DOMAIN f : i # j => f[i] # f[j]

\* C2: for n > 0 and a numeric column metric, get_top_n_plants(n, metric)
\* returns min(n, rows) entries in non-increasing order of metric_value, each
\* the {name, state, metric, metric value} of a distinct plant row, and no
\* row left out has a greater value than a returned one.
C2_TopN ==
    (result.op = "get_top_n_plants" /\ NumericColumn(plant_data, result.args[2])) =>
       LET n == result.args[1]
           metric == result.args[2]
           rows == plant_data.rows
           v == result.value
       IN  /\ result.status = "ok"
           /\ Len(v) = IF n <= Len(rows) THEN n ELSE Len(rows)
           /\ \A i \in 1..(Len(v) - 1) : v[i].metric_value.v >= v[i + 1].metric_value.v
           /\ \E f \in [1..Len(v) -> 1..Len(rows)] :
                 /\ Injective(f)
                 /\ \A i \in 1..Len(v) :
                       v[i] = [name |-> rows[f[i]][PlantName],
                               state |-> rows[f[i]][PlantAbbr],
                               metric |-> metric,
                               metric_value |-> rows[f[i]][metric]]
                 /\ \A k \in (1..Len(rows)) \ Range(f) : \A i \in 1..Len(v) :
                       rows[k][metric].v <= v[i].metric_value.v

\* C2 witness: the top 1 of two rows is the second row, of the greater value.
C2_Witness ==
    /\ result.op = "get_top_n_plants"
    /\ result.status = "ok"
    /\ result.args[1] = 1
    /\ Len(plant_data.rows) = 2
    /\ plant_data.rows[1][PlantGen].v < plant_data.rows[2][PlantGen].v
    /\ result.value[1].state = plant_data.rows[2][PlantAbbr]

\* The plant row an entry of get_top_n_plants was made from.
C3_RowOf(e) ==
    CHOOSE k \in 1..Len(plant_data.rows) :
       /\ plant_data.rows[k][PlantName] = e.name
       /\ plant_data.rows[k][PlantAbbr] = e.state
       /\ plant_data.rows[k][e.metric] = e.metric_value

\* C3: get_top_n_plants sorts stably: of two plant rows of equal metric
\* value, the one first in the cleaned plant table comes first in the
\* result, and is the one kept when the cut at n falls between them.
C3_StableSort ==
    (result.op = "get_top_n_plants" /\ result.status = "ok") =>
       LET v == result.value
           metric == result.args[2]
           rows == plant_data.rows
           kept == {C3_RowOf(v[i]) : i \in 1..Len(v)}
       IN  /\ \A i, j \in 1..Len(v) :
                 (i < j /\ v[i].metric_value = v[j].metric_value) =>
                    C3_RowOf(v[i]) < C3_RowOf(v[j])
           /\ \A k \in (1..Len(rows)) \ kept : \A i \in 1..Len(v) :
                 rows[k][metric] = v[i].metric_value => C3_RowOf(v[i]) < k

RECURSIVE C4_Sum(_, _)
C4_Sum(rowSet, metric) ==
    IF rowSet = {} THEN 0
    ELSE LET k == CHOOSE x \in rowSet : TRUE
         IN  plant_data.rows[k][metric].v + C4_Sum(rowSet \ {k}, metric)

\* C4: when validation passes, get_plant_metric_summary_by_state returns one
\* entry per distinct state abbreviation of the plant table, each tagged
\* with the plant metric; for a state matching exactly one state row of
\* non-zero state metric, absolute_value is the sum of the plant metric over
\* the state's plant rows and percentage the sum of (plant / state) * 100.
C4_Summary ==
    (result.op = "get_plant_metric_summary_by_state" /\ result.status = "ok") =>
       LET metric == result.args[1]
           v == result.value
           prows == plant_data.rows
           srows == state_data.rows
           abbrs == {prows[k][PlantAbbr] : k \in 1..Len(prows)}
       IN  /\ Len(v) = Cardinality(abbrs)
           /\ \A a \in abbrs : \E i \in 1..Len(v) : v[i].plant_state_abbreviation = a
           /\ \A i \in 1..Len(v) :
                 LET a == v[i].plant_state_abbreviation
                     mine == {k \in 1..Len(prows) : prows[k][PlantAbbr] = a}
                     matched == {j \in 1..Len(srows) : srows[j][StateAbbr] = a}
                 IN  /\ v[i].metric = metric
                     /\ (Cardinality(matched) = 1 /\
                         \A j \in matched : srows[j][StateMetric(metric)].v # 0) =>
                           /\ v[i].absolute_value = Num(C4_Sum(mine, metric))
                           /\ v[i].percentage.k = "num"
                           /\ \A j \in matched :
                                 v[i].percentage.n * srows[j][StateMetric(metric)].v =
                                    v[i].percentage.d * C4_Sum(mine, metric) * Hundred

\* C4 witness: plants of 1000 and 5 in one state whose only state row holds
\* 10000: absolute_value 1005, percentage 10.05 (201/20).
C4_Witness ==
    /\ result.op = "get_plant_metric_summary_by_state"
    /\ result.status = "ok"
    /\ Cardinality({j \in 1..Len(state_data.rows) :
                      state_data.rows[j][StateAbbr] = Str(CA)}) = 1
    /\ \E i \in 1..Len(result.value) :
          /\ result.value[i].plant_state_abbreviation = Str(CA)
          /\ result.value[i].absolute_value = Whole(1005)
          /\ result.value[i].percentage = [k |-> "num", n |-> 201, d |-> 20]

\* The first check that fails when the four checks are made in this order.
C5_FirstFailing(order) ==
    LET metric == result.args[1]
        Fails(check) ==
           CASE check = "plant metric does not exist" ->
                   metric \notin Range(plant_data.cols)
             [] check = "plant metric is not numerical" ->
                   ~NumericColumn(plant_data, metric)
             [] check = "state metric does not exist" ->
                   StateMetric(metric) \notin Range(state_data.cols)
             [] check = "no state level numerical data" ->
                   ~NumericColumn(state_data, StateMetric(metric))
        failing == {i \in 1..Len(order) : Fails(order[i])}
    IN  IF failing = {} THEN "none"
        ELSE order[CHOOSE i \in failing : \A j \in failing : i <= j]

\* C5 as first stated: get_plant_metric_summary_by_state checks that the
\* plant metric exists, that it is numeric, that the state metric exists,
\* that it is numeric; it raises BadMetric exactly when a check fails, with
\* the message of the first failing check in that order.
C5_PlantChecksFirst ==
    result.op = "get_plant_metric_summary_by_state" =>
       LET first == C5_FirstFailing(<<"plant metric does not exist",
                                      "plant metric is not numerical",
                                      "state metric does not exist",
                                      "no state level numerical data">>)
       IN  /\ (result.status = "BadMetric") <=> (first # "none")
           /\ result.error.check = first

\* C5, amended: the checks are made in the order: the plant metric exists,
\* the state metric exists, the plant metric is numeric, the state metric is
\* numeric; BadMetric is raised exactly when a check fails, with the message
\* of the first failing check in that order, which names the state metric
\* when that column is missing and the plant metric otherwise.
C5_ExistenceChecksFirst ==
    result.op = "get_plant_metric_summary_by_state" =>
       LET first == C5_FirstFailing(<<"plant metric does not exist",
                                      "state metric does not exist",
                                      "plant metric is not numerical",
                                      "no state level numerical data">>)
       IN  /\ (result.status = "BadMetric") <=> (first # "none")
           /\ (result.status = "ok") <=> (first = "none")
           /\ result.error.check = first
           /\ first = "state metric does not exist" =>
                 result.error.column = StateMetric(result.args[1])
           /\ first \notin {"none", "state metric does not exist"} =>
                 result.error.column = result.args[1]

\* C5 witness: a plant metric that exists and is not numeric, with no state
\* column of the derived name: the missing state metric is what is reported.
C5_Witness ==
    /\ result.op = "get_plant_metric_summary_by_state"
    /\ result.args[1] = PlantName
    /\ ~NumericColumn(plant_data, PlantName)
    /\ result.status = "BadMetric"
    /\ result.error.check = "state metric does not exist"

\* C6: get_data_by_state(state) raises DataNotFound if and only if no plant
\* row has exactly that abbreviation; otherwise it returns exactly the plant
\* rows of that abbreviation, in table order, each with all plant columns.
C6_DataByState ==
    result.op = "get_data_by_state" =>
       LET rows == plant_data.rows
           v == result.value
           mine == {k \in 1..Len(rows) : rows[k][PlantAbbr] = Str(result.args[1])}
       IN  /\ (result.status = "DataNotFound") <=> (mine = {})
           /\ mine # {} =>
                 /\ result.status = "ok"
                 /\ Len(v) = Cardinality(mine)
                 /\ \E f \in [1..Len(v) -> mine] :
                       /\ \A i, j \in 1..Len(v) : i < j => f[i] < f[j]
                       /\ \A i \in 1..Len(v) :
                             /\ v[i] = rows[f[i]]
                             /\ DOMAIN v[i] = Range(plant_data.cols)

\* C6 witness: of two plant rows, the second alone is of the state asked for
\* and is what is returned.
C6_Witness ==
    /\ result.op = "get_data_by_state"
    /\ result.status = "ok"
    /\ Len(plant_data.rows) = 2
    /\ Len(result.value) = 1
    /\ result.value[1] = plant_data.rows[2]

\* C7: every call of get_top_n_plants, get_plant_metric_summary_by_state and
\* get_data_by_state, returning or raising, leaves both cleaned tables as
\* they were; the same query asked again returns the same result.
C7_TablesUnchanged ==
    [][/\ plant_data' = plant_data
       /\ state_data' = state_data
       /\ (result'.op = result.op /\ result'.args = result.args) => result' = result]_vars

\* C7 witness: get_top_n_plants has returned the second row of the plant
\* table first, and the table still holds its rows in their order.
C7_Witness ==
    /\ result.op = "get_top_n_plants"
    /\ result.status = "ok"
    /\ Len(plant_data.rows) = 2
    /\ plant_data.rows[1][PlantGen].v < plant_data.rows[2][PlantGen].v
    /\ Len(result.value) = 2
    /\ result.value[1].metric_value = plant_data.rows[2][PlantGen]

InitPlantRaw ==
    /\ raw \in RawPlantTables
    /\ data = EmptyFrame
    /\ percentage_columns = <<>>
    /\ pc = "handler"
    /\ plant_data = CleanData(raw).df
    /\ state_data \in {CleanData(t).df : t \in {u \in RawStateTables : Len(u.rows) = 2}}
    /\ sort_order \in {f \in [NumericColumns(plant_data) -> Perms(Len(plant_data.rows))] :
                         \A c \in NumericColumns(plant_data) :
                            f[c] \in SortedOrders(plant_data, c)}
    /\ result = NoResult

SpecPlantRaw == InitPlantRaw /\ [][Next]_vars

\* C12: get_top_n_plants(n, metric) fails with BadMetric, returning no
\* entries, exactly when metric is no column of the plant table (reason:
\* absent) or is a column with a data cell that is no number (reason:
\* non-numeric), the error naming metric; a column with one non-numeric data
\* cell is non-numeric as a whole, and a column whose only non-numeric cell
\* is in the metadata row is numeric.
C12_BadMetric ==
    result.op = "get_top_n_plants" =>
       LET metric == result.args[2]
           absent == metric \notin Range(raw.cols)
           textInMetadata == ~absent /\ ~C10_LooksNumeric(raw.rows[1][metric])
           textInData == /\ ~absent
                         /\ \E j \in 2..Len(raw.rows) : ~C10_LooksNumeric(raw.rows[j][metric])
       IN  /\ (result.status = "BadMetric") <=> (absent \/ textInData)
           /\ (result.status = "ok") <=> ~(absent \/ textInData)
           /\ result.status = "BadMetric" =>
                 /\ result.value = <<>>
                 /\ result.error.column = metric
           /\ absent => result.error.check = "metric does not exist"
           /\ textInData => result.error.check = "metric is not numerical"
           /\ (textInMetadata /\ ~textInData) =>
                 /\ result.status = "ok"
                 /\ Len(result.value) > 0

\* C12 witness: "Plant gen" holds "1,000" in one data row and "x" in the
\* other, and get_top_n_plants has refused it as not numerical.
C12_Witness ==
    /\ result.op = "get_top_n_plants"
    /\ result.args[2] = PlantGen
    /\ Len(raw.rows) = 3
    /\ raw.rows[2][PlantGen] = Str(<<"1", ",", "0", "0", "0">>)
    /\ raw.rows[3][PlantGen] = Str(<<"x">>)
    /\ result.status = "BadMetric"
    /\ result.error.check = "metric is not numerical"

(***************************************************************************)
(* The join of get_plant_metric_summary_by_state, checked under Spec       *)
(***************************************************************************)
\* The entries of a returned summary whose state has no row in the state
\* table.
C13_Unmatched ==
    {i \in 1..Len(result.value) :
       \A j \in 1..Len(state_data.rows) :
          state_data.rows[j][StateAbbr] # result.value[i].plant_state_abbreviation}

\* C13 as first stated: a plant row whose state abbreviation matches no
\* state row gets an undefined percentage, and the percentage of its state's
\* summary entry is undefined (NaN) too.
C13_NaNPropagates ==
    (result.op = "get_plant_metric_summary_by_state" /\ result.status = "ok") =>
       \A i \in C13_Unmatched : result.value[i].percentage.k = "nan"

\* C13, amended: a plant row whose state abbreviation matches no state row
\* gets an undefined percentage, which the sum over its state skips: the
\* percentage of its state's summary entry is the number 0.0, next to an
\* absolute_value that is the sum of the state's plant rows.
C13_UnmatchedIsZero ==
    (result.op = "get_plant_metric_summary_by_state" /\ result.status = "ok") =>
       \A i \in C13_Unmatched :
          LET a == result.value[i].plant_state_abbreviation
              mine == {k \in 1..Len(plant_data.rows) : plant_data.rows[k][PlantAbbr] = a}
          IN  /\ result.value[i].percentage = [k |-> "num", n |-> 0, d |-> 1]
              /\ result.value[i].absolute_value = Num(C4_Sum(mine, result.args[1]))

\* C13 witness: a summary with an entry for NY, of plants worth 1000, while
\* the state table has no NY row.
C13_Witness ==
    /\ result.op = "get_plant_metric_summary_by_state"
    /\ result.status = "ok"
    /\ \E i \in C13_Unmatched :
          /\ result.value[i].plant_state_abbreviation = Str(NY)
          /\ result.value[i].absolute_value = Whole(1000)

\* C14: each plant row counts once in its state's absolute_value, whatever
\* the state table holds, rows of one abbreviation included: absolute_value
\* is the sum of the plant metric over the plant rows of the state.
C14_AbsoluteIsPlantSum ==
    (result.op = "get_plant_metric_summary_by_state" /\ result.status = "ok") =>
       \A i \in 1..Len(result.value) :
          LET a == result.value[i].plant_state_abbreviation
              mine == {k \in 1..Len(plant_data.rows) : plant_data.rows[k][PlantAbbr] = a}
          IN  result.value[i].absolute_value = Num(C4_Sum(mine, result.args[1]))

====
